---- MODULE Spec2Model ----
(***************************************************************************)
(* Model of the s-expression scanner and parser of src/sexpr/sexpr.go      *)
(* (first program of the file, lines 1-394).                               *)
(*                                                                         *)
(* The scanner goroutine (lexer.run and its state functions) and the       *)
(* recursive-descent parser (parse) exchange items over the channel made   *)
(* by lex.  Strings are sequences of bytes, a byte being a one-character   *)
(* TLA+ string ("xC3" and "xA9" are the two bytes of a two-byte UTF-8      *)
(* code point).  Go's 0-based slice input[start:pos] is                    *)
(* SubSeq(input, start+1, pos).                                            *)
(***************************************************************************)
EXTENDS Integers, Sequences, FiniteSets, TLC

VARIABLES
  input,    \* lexer.input
  start,    \* lexer.start
  pos,      \* lexer.pos
  width,    \* lexer.width
  lpc,      \* where the scanner goroutine is: a state function, a blocked send, "nil", "closed"
  pend,     \* the item type of the blocked send and the place the scanner resumes at
  buf,      \* the items buffered in the channel lexer.items
  closed,   \* whether close(l.items) has happened
  ppc,      \* where the parser is: "recv" (blocked in <-ch), "returned", "panic"
  stack,    \* the activation records of the nested parse calls
  heap,     \* the sexpr structures allocated so far; a pointer is an index, 0 is nil
  root,     \* the pointer returned by the top-level parse call
  sent,     \* history: the items whose send has completed, in order
  recvd,    \* history: the items the parser's receives have returned, in order
  tokens,   \* history: how many of the receives took an item that was sent
  spans,    \* history: l.start and l.pos at each completed send, in order
  dpc,      \* "idle", "done" or "panic": the call of sexprToDotFile
  dot,      \* the records _sexprToDotFile has written: a structure and its identifier
  ustack,   \* the activation records of the nested sexprUnparse calls
  upc,      \* "idle", "run" or "done": the outermost sexprUnparse call
  out,      \* the bytes received so far from sexprUnparse's channel
  run,      \* 1 in the first pass over an input, 2 in the pass over its variant
  saved     \* the tree the first pass returned

vars == <<input, start, pos, width, lpc, pend, buf, closed, ppc, stack, heap,
          root, sent, spans, recvd, tokens, spans, dpc, dot, ustack, upc, out, run, saved>>

lexerVars == <<start, pos, width, lpc, pend>>
parserVars == <<ppc, stack, heap, root>>
unparseVars == <<ustack, upc, out>>
dotVars == <<dpc, dot>>
passVars == <<input, run, saved>>

----------------------------------------------------------------------------
(* Bounds of the model *)

\* longest enumerated input, in bytes
MaxLen == 4

\* bytes sexprUnparse may send beyond the length of the input
MaxExtra == 2

----------------------------------------------------------------------------
(* Constants of the program *)

itemError == 0
itemRParen == 1
itemLParen == 2
itemEOF == 3
itemAtom == 4

sexprAtom == 0
sexprList == 1

atomBasic == 0
atomInvalid == 1

eof == "eof"

\* make(chan item, 1): a channel that buffers one item
ChanCapBuffered == 0 + 1

\* make(chan item): the capacity of lexer.items
ChanCap == 0

whitespace == {" ", "\r", "\n", "\t"}

\* the expression main lexes and parses
testexpr ==
  << "(", "t", "e", "s", "t", " ",
     "(", "t", "e", "s", "t", "2", " ",
     "\"", "i", " ", "a", "m", " ", "l", "o", "n", "g", "\"", " ",
     "t", "e", "s", "t", "3", ")", " ",
     "b", "l", "a", "h", ")" >>

\* an expression whose tree has a List with a head and no next as the head
\* of a List that has a next
dotexpr == << "(", "(", "a", ")", ")", " ", "b" >>

----------------------------------------------------------------------------
(* Inputs *)

Bytes == {"(", ")", "\"", " ", "\t", "a", "xC3", "xA9"}

RECURSIVE SeqsUpTo(_, _)
SeqsUpTo(S, n) ==
  IF n = 0 THEN {<<>>}
  ELSE LET shorter == SeqsUpTo(S, n - 1)
       IN shorter \cup {Append(s, b) : s \in {t \in shorter : Len(t) = n - 1}, b \in S}

Inputs == SeqsUpTo(Bytes, MaxLen) \cup {testexpr, dotexpr}

----------------------------------------------------------------------------
(* The cursor of the scanner *)

\* utf8.DecodeRuneInString(l.input[p:]) for p < len(l.input)
DecodeRuneInString(s, p) ==
  LET b == s[p + 1]
  IN IF b = "xC3" /\ p + 2 <= Len(s) /\ s[p + 2] = "xA9"
       THEN [rune |-> "U+00E9", width |-> 2]
     ELSE IF b \in {"xC3", "xA9"}
       THEN [rune |-> "U+FFFD", width |-> 1]
     ELSE [rune |-> b, width |-> 1]

\* lexer.next leaving l.width as it was at the end of the input
nextStaleWidth(p) ==
  IF p >= Len(input)
    THEN [rune |-> eof, pos |-> p, width |-> width]
    ELSE LET d == DecodeRuneInString(input, p)
         IN [rune |-> d.rune, pos |-> p + d.width, width |-> d.width]

\* lexer.next from position p: the rune, the new pos and the new width
next(p) ==
  IF p >= Len(input)
    THEN [rune |-> eof, pos |-> p, width |-> 0]
    ELSE LET d == DecodeRuneInString(input, p)
         IN [rune |-> d.rune, pos |-> p + d.width, width |-> d.width]

\* lexer.backup applied to the outcome of a next
backup(n) == [n EXCEPT !.pos = n.pos - n.width]

\* lexer.peek from position p
peek(p) == backup(next(p))

\* lexer.accept(valid) from position p
accept(valid, p) ==
  LET n == next(p)
  IN IF n.rune \in valid
       THEN [ok |-> TRUE, pos |-> n.pos, width |-> n.width]
       ELSE [ok |-> FALSE, pos |-> backup(n).pos, width |-> n.width]

NoPend == [typ |-> itemError, ret |-> "none"]

\* emitHelper(l, t, nextState), the cursor being at p with width w
emitHelper(t, nextState, p, w) ==
  /\ pos' = p
  /\ width' = w
  /\ start' = start
  /\ IF p > start
       THEN lpc' = "emit" /\ pend' = [typ |-> t, ret |-> nextState]
       ELSE lpc' = nextState /\ pend' = NoPend

----------------------------------------------------------------------------
(* The parser *)

Frame(sty, val) == [sty |-> sty, at |-> IF sty = sexprList THEN "list" ELSE "next",
                    slist |-> 0, val |-> val]

\* parse building its structure with slist and snext taken one for the other
RECURSIVE returnSwapped(_, _, _)
returnSwapped(v, st, hp) ==
  IF st = <<>>
    THEN [ppc |-> "returned", stack |-> st, heap |-> hp, root |-> v]
    ELSE LET f == st[Len(st)]
             callers == SubSeq(st, 1, Len(st) - 1)
         IN IF f.at = "list"
              THEN [ppc |-> "recv",
                    stack |-> Append(callers, [f EXCEPT !.at = "next", !.slist = v]),
                    heap |-> hp, root |-> 0]
              ELSE LET s == [aty |-> IF f.sty = sexprList THEN atomInvalid ELSE atomBasic,
                             sty |-> f.sty,
                             val |-> f.val,
                             list |-> IF f.sty = sexprList THEN v ELSE 0,
                             next |-> IF f.sty = sexprList THEN f.slist ELSE v]
                   IN returnSwapped(Len(hp) + 1, callers, Append(hp, s))

\* a parse call returns pointer v to its caller: the caller goes on to its next
\* parse call, or builds its structure and returns in turn
RECURSIVE return(_, _, _)
return(v, st, hp) ==
  IF st = <<>>
    THEN [ppc |-> "returned", stack |-> st, heap |-> hp, root |-> v]
    ELSE LET f == st[Len(st)]
             callers == SubSeq(st, 1, Len(st) - 1)
         IN IF f.at = "list"
              THEN [ppc |-> "recv",
                    stack |-> Append(callers, [f EXCEPT !.at = "next", !.slist = v]),
                    heap |-> hp, root |-> 0]
              ELSE LET s == [aty |-> IF f.sty = sexprList THEN atomInvalid ELSE atomBasic,
                             sty |-> f.sty,
                             val |-> f.val,
                             list |-> f.slist,
                             next |-> v]
                   IN return(Len(hp) + 1, callers, Append(hp, s))

\* parse keeping the text of the left parenthesis as the value of its List
parseListVal(i, st, hp) ==
  CASE i.typ = itemLParen ->
         [ppc |-> "recv", stack |-> Append(st, Frame(sexprList, i.val)), heap |-> hp, root |-> 0]
    [] i.typ = itemRParen -> return(0, st, hp)
    [] i.typ = itemAtom ->
         [ppc |-> "recv", stack |-> Append(st, Frame(sexprAtom, i.val)), heap |-> hp, root |-> 0]
    [] i.typ = itemEOF -> return(0, st, hp)
    [] OTHER -> [ppc |-> "panic", stack |-> st, heap |-> hp, root |-> 0]

\* parse without its case for itemEOF
parseNoEOF(i, st, hp) ==
  CASE i.typ = itemLParen ->
         [ppc |-> "recv", stack |-> Append(st, Frame(sexprList, <<>>)), heap |-> hp, root |-> 0]
    [] i.typ = itemRParen -> return(0, st, hp)
    [] i.typ = itemAtom ->
         [ppc |-> "recv", stack |-> Append(st, Frame(sexprAtom, i.val)), heap |-> hp, root |-> 0]
    [] OTHER -> [ppc |-> "panic", stack |-> st, heap |-> hp, root |-> 0]

\* the switch of parse on the item i it has received
parse(i, st, hp) ==
  CASE i.typ = itemLParen ->
         [ppc |-> "recv", stack |-> Append(st, Frame(sexprList, <<>>)), heap |-> hp, root |-> 0]
    [] i.typ = itemRParen -> return(0, st, hp)
    [] i.typ = itemAtom ->
         [ppc |-> "recv", stack |-> Append(st, Frame(sexprAtom, i.val)), heap |-> hp, root |-> 0]
    [] i.typ = itemEOF -> return(0, st, hp)
    [] OTHER -> [ppc |-> "panic", stack |-> st, heap |-> hp, root |-> 0]

\* the parser's blocked receive returns item i
Receive(i) ==
  LET r == parse(i, stack, heap)
  IN /\ ppc' = r.ppc
     /\ stack' = r.stack
     /\ heap' = r.heap
     /\ root' = r.root
     /\ recvd' = Append(recvd, i)

----------------------------------------------------------------------------
(* The scanner goroutine *)

\* one iteration of the loop of lexAtom, up to its return or its first send
lexAtom ==
  /\ lpc = "lexAtom"
  /\ LET k == peek(pos)
     IN CASE k.rune = "(" -> emitHelper(itemAtom, "lexLeftParen", k.pos, k.width)
          [] k.rune = ")" -> emitHelper(itemAtom, "lexRightParen", k.pos, k.width)
          [] k.rune = "\"" -> emitHelper(itemAtom, "lexAtomQuote", k.pos, k.width)
          [] k.rune \in {" ", "\t", "\r", "\n"} ->
               emitHelper(itemAtom, "lexWhitespace", k.pos, k.width)
          [] OTHER ->
               LET n == next(k.pos)
               IN IF n.rune = eof
                    THEN emitHelper(itemAtom, "lexAtomEOF", n.pos, n.width)
                    ELSE /\ pos' = n.pos
                         /\ width' = n.width
                         /\ UNCHANGED <<start, lpc, pend>>
  /\ UNCHANGED <<buf, closed, parserVars, sent, spans, recvd, tokens, unparseVars, dotVars, passVars>>

\* lexAtom after emitHelper in the branch of the double quote: l.next(), return lexDQuote
lexAtomQuote ==
  /\ lpc = "lexAtomQuote"
  /\ LET n == next(pos)
     IN /\ pos' = n.pos
        /\ width' = n.width
  /\ lpc' = "lexDQuote"
  /\ UNCHANGED <<start, pend>>
  /\ UNCHANGED <<buf, closed, parserVars, sent, spans, recvd, tokens, unparseVars, dotVars, passVars>>

\* lexAtom returning nil without its l.emit(itemEOF)
lexAtomEOFSkipped ==
  /\ lpc = "lexAtomEOF"
  /\ lpc' = "nil"
  /\ pend' = NoPend
  /\ UNCHANGED <<start, pos, width>>
  /\ UNCHANGED <<buf, closed, parserVars, sent, spans, recvd, tokens, unparseVars, dotVars, passVars>>

\* lexAtom after its loop and the pending atom: l.emit(itemEOF), return nil
lexAtomEOF ==
  /\ lpc = "lexAtomEOF"
  /\ lpc' = "emit"
  /\ pend' = [typ |-> itemEOF, ret |-> "nil"]
  /\ UNCHANGED <<start, pos, width>>
  /\ UNCHANGED <<buf, closed, parserVars, sent, spans, recvd, tokens, unparseVars, dotVars, passVars>>

\* state for lexing a double quoted string.  At the end of the input accept
\* fails and l.next() returns eof with width 0: the state function returns
\* itself with the lexer unchanged, and run calls it again, for ever.
lexDQuote ==
  /\ lpc = "lexDQuote"
  /\ LET a == accept({"\""}, pos)
     IN IF a.ok
          THEN /\ pos' = a.pos
               /\ width' = a.width
               /\ lpc' = "emit"
               /\ pend' = [typ |-> itemAtom, ret |-> "lexAtom"]
          ELSE LET n == next(a.pos)
               IN /\ pos' = n.pos
                  /\ width' = n.width
                  /\ UNCHANGED <<lpc, pend>>
  /\ UNCHANGED start
  /\ UNCHANGED <<buf, closed, parserVars, sent, spans, recvd, tokens, unparseVars, dotVars, passVars>>

\* lexWhitespace without its l.ignore()
lexWhitespaceKept ==
  /\ lpc = "lexWhitespace"
  /\ LET a == accept(whitespace, pos)
     IN /\ pos' = a.pos
        /\ width' = a.width
        /\ lpc' = IF a.ok THEN "lexWhitespace" ELSE "lexAtom"
  /\ UNCHANGED <<start, pend>>
  /\ UNCHANGED <<buf, closed, parserVars, sent, spans, recvd, tokens, unparseVars, dotVars, passVars>>

\* state to spin through whitespace and throw it out between atoms
lexWhitespace ==
  /\ lpc = "lexWhitespace"
  /\ LET a == accept(whitespace, pos)
     IN /\ pos' = a.pos
        /\ width' = a.width
        /\ IF a.ok
             THEN start' = a.pos /\ lpc' = "lexWhitespace"
             ELSE start' = start /\ lpc' = "lexAtom"
  /\ UNCHANGED pend
  /\ UNCHANGED <<buf, closed, parserVars, sent, spans, recvd, tokens, unparseVars, dotVars, passVars>>

lexLeftParen ==
  /\ lpc = "lexLeftParen"
  /\ pos' = pos + 1
  /\ lpc' = "emit"
  /\ pend' = [typ |-> itemLParen, ret |-> "lexAtom"]
  /\ UNCHANGED <<start, width>>
  /\ UNCHANGED <<buf, closed, parserVars, sent, spans, recvd, tokens, unparseVars, dotVars, passVars>>

lexRightParen ==
  /\ lpc = "lexRightParen"
  /\ pos' = pos + 1
  /\ lpc' = "emit"
  /\ pend' = [typ |-> itemRParen, ret |-> "lexAtom"]
  /\ UNCHANGED <<start, width>>
  /\ UNCHANGED <<buf, closed, parserVars, sent, spans, recvd, tokens, unparseVars, dotVars, passVars>>

\* lexer.emit without its l.start = l.pos
emitKeepStart ==
  /\ lpc = "emit"
  /\ LET i == [typ |-> pend.typ, val |-> SubSeq(input, start + 1, pos)]
     IN /\ IF ChanCap = 0
             THEN /\ ppc = "recv"
                  /\ Receive(i)
                  /\ tokens' = tokens + 1
                  /\ buf' = buf
             ELSE /\ Len(buf) < ChanCap
                  /\ buf' = Append(buf, i)
                  /\ UNCHANGED <<parserVars, recvd, tokens>>
        /\ sent' = Append(sent, i)
        /\ spans' = Append(spans, [start |-> start, pos |-> pos])
  /\ start' = start
  /\ lpc' = pend.ret
  /\ pend' = NoPend
  /\ UNCHANGED <<pos, width, closed, unparseVars, dotVars, passVars>>

\* the send of lexer.emit completes: by rendezvous with the parser's receive
\* when the channel has no buffer, into the buffer otherwise
emit ==
  /\ lpc = "emit"
  /\ LET i == [typ |-> pend.typ, val |-> SubSeq(input, start + 1, pos)]
     IN /\ IF ChanCap = 0
             THEN /\ ppc = "recv"
                  /\ Receive(i)
                  /\ tokens' = tokens + 1
                  /\ buf' = buf
             ELSE /\ Len(buf) < ChanCap
                  /\ buf' = Append(buf, i)
                  /\ UNCHANGED <<parserVars, recvd, tokens>>
        /\ sent' = Append(sent, i)
        /\ spans' = Append(spans, [start |-> start, pos |-> pos])
  /\ start' = pos
  /\ lpc' = pend.ret
  /\ pend' = NoPend
  /\ UNCHANGED <<pos, width, closed, unparseVars, dotVars, passVars>>

\* lexer.run after its loop: close(l.items)
close ==
  /\ lpc = "nil"
  /\ closed' = TRUE
  /\ lpc' = "closed"
  /\ UNCHANGED <<start, pos, width, pend, buf, parserVars, sent, spans, recvd, tokens,
                 unparseVars, dotVars, passVars>>

\* the receive of parse returns without a rendezvous: a buffered item, or the
\* zero item of the closed channel
recv ==
  /\ ppc = "recv"
  /\ IF buf # <<>>
       THEN /\ Receive(Head(buf))
            /\ buf' = Tail(buf)
            /\ tokens' = tokens + 1
       ELSE /\ closed
            /\ Receive([typ |-> 0, val |-> <<>>])
            /\ UNCHANGED <<buf, tokens>>
  /\ UNCHANGED <<lexerVars, closed, sent, spans, unparseVars, dotVars, passVars>>

----------------------------------------------------------------------------
(* lex and main *)

\* the state after lex(name, input) has started the goroutine and main has
\* called parse(items)
Start(in) ==
  /\ input = in
  /\ start = 0
  /\ pos = 0
  /\ width = 0
  /\ lpc = "lexAtom"
  /\ pend = NoPend
  /\ buf = <<>>
  /\ closed = FALSE
  /\ ppc = "recv"
  /\ stack = <<>>
  /\ heap = <<>>
  /\ root = 0
  /\ sent = <<>>
  /\ recvd = <<>>
  /\ tokens = 0
  /\ spans = <<>>
  /\ dpc = "idle"
  /\ dot = <<>>
  /\ ustack = <<>>
  /\ upc = "idle"
  /\ out = <<>>

Init ==
  /\ \E in \in Inputs : Start(in)
  /\ run = 1
  /\ saved = <<>>

Next ==
  \/ lexAtom
  \/ lexAtomQuote
  \/ lexAtomEOF
  \/ lexDQuote
  \/ lexWhitespace
  \/ lexLeftParen
  \/ lexRightParen
  \/ emit
  \/ close
  \/ recv

Spec == Init /\ [][Next]_vars

----------------------------------------------------------------------------
(* sexprUnparse, called on the tree parse returned, its channel being drained *)

UFrame(s) == [s |-> s, at |-> "entry", i |-> 0]

\* the stack with its top activation record moved to place a
UGoto(a) == [ustack EXCEPT ![Len(ustack)].at = a]

\* ch <- b, then go to place a
USend(b, a) ==
  /\ Len(out) < Len(input) + MaxExtra
  /\ out' = Append(out, b)
  /\ ustack' = UGoto(a)
  /\ upc' = upc

\* the caller calls sexprUnparse(root, ch) once parse has returned
sexprUnparseCall ==
  /\ ppc = "returned"
  /\ upc = "idle"
  /\ upc' = "run"
  /\ ustack' = <<UFrame(root)>>
  /\ UNCHANGED <<out, lexerVars, buf, closed, parserVars, sent, spans, recvd, tokens, dotVars, passVars>>

\* one step of the innermost sexprUnparse call
sexprUnparse ==
  /\ upc = "run"
  /\ LET f == ustack[Len(ustack)]
         callers == SubSeq(ustack, 1, Len(ustack) - 1)
     IN CASE f.at = "entry" ->
               \* if (s == nil) { return }
               IF f.s = 0
                 THEN /\ ustack' = callers
                      /\ upc' = IF callers = <<>> THEN "done" ELSE "run"
                      /\ out' = out
                 ELSE /\ ustack' = UGoto("for")
                      /\ UNCHANGED <<upc, out>>
          [] f.at = "for" ->
               \* for s != nil { switch s.sty
               IF heap[f.s].sty = sexprList
                 THEN USend("(", "list")
                 ELSE /\ ustack' = [ustack EXCEPT ![Len(ustack)].at = "val",
                                                  ![Len(ustack)].i = 0]
                      /\ UNCHANGED <<upc, out>>
          [] f.at = "list" ->
               \* sexprUnparse(s.list, ch)
               /\ ustack' = Append(UGoto("rparen"), UFrame(heap[f.s].list))
               /\ UNCHANGED <<upc, out>>
          [] f.at = "rparen" -> USend(")", "next")
          [] f.at = "val" ->
               \* for i := range s.val { ch <- s.val[i] }
               IF f.i < Len(heap[f.s].val)
                 THEN /\ Len(out) < Len(input) + MaxExtra
                      /\ out' = Append(out, heap[f.s].val[f.i + 1])
                      /\ ustack' = [ustack EXCEPT ![Len(ustack)].i =
                                      f.i + DecodeRuneInString(heap[f.s].val, f.i).width]
                      /\ upc' = upc
                 ELSE /\ ustack' = UGoto("next")
                      /\ UNCHANGED <<upc, out>>
          [] f.at = "next" ->
               \* if (s.next != nil) { ch <- ' '
               IF heap[f.s].next # 0
                 THEN USend(" ", "callnext")
                 ELSE /\ ustack' = UGoto("for")
                      /\ UNCHANGED <<upc, out>>
          [] f.at = "callnext" ->
               \* sexprUnparse(s.next, ch) } }
               /\ ustack' = Append(UGoto("for"), UFrame(heap[f.s].next))
               /\ UNCHANGED <<upc, out>>
  /\ UNCHANGED <<lexerVars, buf, closed, parserVars, sent, spans, recvd, tokens, dotVars, passVars>>

NextUnparse == Next \/ sexprUnparseCall \/ sexprUnparse

SpecUnparse == Init /\ [][NextUnparse]_vars

----------------------------------------------------------------------------
(* sexprToDotFile, called on the tree parse returned *)

\* _sexprToDotFile(s, file, id): the identifier it returns and the records it
\* writes, each with the structure it names, in the order of writing
RECURSIVE _sexprToDotFile(_, _)
_sexprToDotFile(s, id) ==
  LET rec == <<[node |-> s, id |-> id]>>
  IN IF heap[s].sty = sexprAtom
       THEN IF heap[s].next # 0
              THEN LET nx == _sexprToDotFile(heap[s].next, id + 1)
                   IN [ret |-> nx.ret + 1, recs |-> rec \o nx.recs]
              ELSE [ret |-> id + 1, recs |-> rec]
       ELSE IF heap[s].list # 0
              THEN LET ls == _sexprToDotFile(heap[s].list, id + 1)
                   IN IF heap[s].next # 0
                        THEN LET nx == _sexprToDotFile(heap[s].next, ls.ret)
                             IN [ret |-> nx.ret + 1, recs |-> rec \o ls.recs \o nx.recs]
                        ELSE [ret |-> id + 1, recs |-> rec \o ls.recs]
              ELSE IF heap[s].next # 0
                     THEN LET nx == _sexprToDotFile(heap[s].next, id + 1)
                          IN [ret |-> nx.ret + 1, recs |-> rec \o nx.recs]
                     ELSE [ret |-> id + 1, recs |-> rec]

\* sexprToDotFile(s, filename): _sexprToDotFile(s, file, 1); s.sty of a nil s
\* is a nil dereference
sexprToDotFile ==
  /\ ppc = "returned"
  /\ dpc = "idle"
  /\ IF root = 0
       THEN dpc' = "panic" /\ dot' = dot
       ELSE dpc' = "done" /\ dot' = _sexprToDotFile(root, 1).recs
  /\ UNCHANGED <<lexerVars, buf, closed, parserVars, sent, spans, recvd, tokens,
                 unparseVars, passVars>>

NextDot == Next \/ sexprToDotFile

SpecDot == Init /\ [][NextDot]_vars

----------------------------------------------------------------------------
(* A second pass over an input that differs from the first in one whitespace run *)

\* byte k of in lies outside the quoted atoms: an even number of quotes precede it
OutsideQuotes(in, k) == Cardinality({j \in 1..(k - 1) : in[j] = "\""}) % 2 = 0

\* the tree below pointer a, as a value
RECURSIVE Tree(_)
Tree(a) ==
  IF a = 0 THEN <<>>
  ELSE <<[aty |-> heap[a].aty, sty |-> heap[a].sty, val |-> heap[a].val,
          list |-> Tree(heap[a].list), next |-> Tree(heap[a].next)]>>

\* in with byte k of a whitespace run replaced by another whitespace byte, or
\* with one more whitespace byte put in front of it
Variants(in) ==
  UNION {    {[in EXCEPT ![k] = w] : w \in (whitespace \cap Bytes) \ {in[k]}}
        \cup {SubSeq(in, 1, k - 1) \o <<w>> \o SubSeq(in, k, Len(in)) :
                w \in {x \in whitespace \cap Bytes : Len(in) < MaxLen}}
        : k \in {j \in 1..Len(in) : in[j] \in whitespace /\ OutsideQuotes(in, j)}}

\* main runs again, on a variant of its input, keeping the tree of the first pass
Rerun ==
  /\ run = 1
  /\ ppc = "returned"
  /\ \E v \in Variants(input) :
       /\ input' = v
       /\ start' = 0
       /\ pos' = 0
       /\ width' = 0
       /\ lpc' = "lexAtom"
       /\ pend' = NoPend
       /\ buf' = <<>>
       /\ closed' = FALSE
       /\ ppc' = "recv"
       /\ stack' = <<>>
       /\ heap' = <<>>
       /\ root' = 0
       /\ sent' = <<>>
       /\ recvd' = <<>>
       /\ tokens' = 0
       /\ spans' = <<>>
  /\ run' = 2
  /\ saved' = <<Tree(root)>>
  /\ UNCHANGED <<unparseVars, dotVars>>

NextWS == Next \/ Rerun

SpecWS == Init /\ [][NextWS]_vars

----------------------------------------------------------------------------
(* The scheduler runs every goroutine that can take a step *)

LexStep ==
  \/ lexAtom
  \/ lexAtomQuote
  \/ lexAtomEOF
  \/ lexDQuote
  \/ lexWhitespace
  \/ lexLeftParen
  \/ lexRightParen

FairSpec ==
  /\ Spec
  /\ WF_vars(LexStep)
  /\ WF_vars(emit)
  /\ WF_vars(close)
  /\ WF_vars(recv)

----------------------------------------------------------------------------
(* Vocabulary of the properties *)

Last(s) == s[Len(s)]

IsPrefix(s, t) == Len(s) <= Len(t) /\ SubSeq(t, 1, Len(s)) = s

Count(s, T) == Cardinality({k \in 1..Len(s) : s[k].typ \in T})

\* every double quote of in that opens a quoted atom is closed
QuotesClosed(in) == OutsideQuotes(in, Len(in) + 1)

Delims == {"(", ")", "\""} \cup whitespace

\* the parentheses of in outside its quoted atoms
Parens(in) == {k \in 1..Len(in) : in[k] \in {"(", ")"} /\ OutsideQuotes(in, k)}

\* the first bytes of the maximal runs of bare atom bytes of in
AtomRuns(in) ==
  {k \in 1..Len(in) : /\ OutsideQuotes(in, k)
                      /\ in[k] \notin Delims
                      /\ (k = 1 \/ in[k - 1] \in Delims)}

\* the closing quotes of the quoted atoms of in
QuotedAtoms(in) == {k \in 1..Len(in) : in[k] = "\"" /\ ~OutsideQuotes(in, k)}

ExpectedTokens(in) ==
  Cardinality(Parens(in)) + Cardinality(AtomRuns(in)) + Cardinality(QuotedAtoms(in)) + 1

\* the scanner has consumed an opening quote and no closing one, and is at the
\* end of the input
AtEofInQuote == lpc = "lexDQuote" /\ pos >= Len(input)

EOFReceived == Count(recvd, {itemEOF}) > 0

\* the parser has received EndOfInput with a list still open
EOFInsideList ==
  /\ EOFReceived
  /\ Count(recvd, {itemLParen}) > Count(recvd, {itemRParen})

\* the items produced by the scanner: sent, or held in a blocked send
Produced == Len(sent) + (IF lpc = "emit" THEN 1 ELSE 0)

\* the type of the item the scanner produced last
LastProduced ==
  IF lpc = "emit" THEN pend.typ
  ELSE IF sent # <<>> THEN Last(sent).typ
  ELSE itemError

\* the view of the tree below pointer a: atoms with their value and whether
\* they are marked as quoted, lists with their head, and the next sibling
RECURSIVE View(_)
View(a) ==
  IF a = 0 THEN <<>>
  ELSE <<[kind |-> IF heap[a].sty = sexprList THEN "List" ELSE "Atom",
          value |-> heap[a].val,
          quoted |-> heap[a].sty = sexprAtom /\ heap[a].aty # atomBasic,
          head |-> View(heap[a].list),
          next |-> View(heap[a].next)]>>

AtomNode(v, q, nx) == <<[kind |-> "Atom", value |-> v, quoted |-> q, head |-> <<>>, next |-> nx]>>
ListNode(hd, nx) == <<[kind |-> "List", value |-> <<>>, quoted |-> FALSE, head |-> hd, next |-> nx]>>

\* balanced parentheses, closed quotes, a single space between sibling
\* elements and no other whitespace outside the quoted atoms
Depth(in, k) ==
  Cardinality({j \in Parens(in) : j <= k /\ in[j] = "("})
  - Cardinality({j \in Parens(in) : j <= k /\ in[j] = ")"})

ElementStart(in, k) ==
  /\ OutsideQuotes(in, k)
  /\ \/ in[k] \in {"(", "\""}
     \/ k \in AtomRuns(in)

Canonical(in) ==
  /\ QuotesClosed(in)
  /\ \A k \in 1..Len(in) : Depth(in, k) >= 0
  /\ Depth(in, Len(in)) = 0
  /\ \A k \in 1..Len(in) :
       /\ (OutsideQuotes(in, k) /\ in[k] \in whitespace) =>
            /\ in[k] = " "
            /\ k > 1 /\ in[k - 1] \notin {"(", " "}
            /\ k < Len(in) /\ in[k + 1] \notin {")", " "}
       /\ ElementStart(in, k) => (k = 1 \/ in[k - 1] \in {"(", " "})

----------------------------------------------------------------------------
(* Properties *)

\* C1: when the scanner is inside a quoted atom and at the end of the input,
\* its step starts the send of an Error item (after which it ends), instead of
\* staying in lexDQuote.
C1_UnterminatedQuoteIsReported ==
  [][AtEofInQuote => (lpc' = "emit" /\ pend'.typ = itemError /\ pend'.ret = "nil")]_vars

\* C2: when parse returns for the expression of main, the tree is one List
\* without next sibling holding test, the List of test2, the quoted atom
\* "i am long" without its quotes and test3, and then blah.
C2_TestExprTree ==
  (input = testexpr /\ ppc = "returned") =>
    View(root) =
      ListNode(
        AtomNode(<<"t", "e", "s", "t">>, FALSE,
          ListNode(
            AtomNode(<<"t", "e", "s", "t", "2">>, FALSE,
              AtomNode(<<"i", " ", "a", "m", " ", "l", "o", "n", "g">>, TRUE,
                AtomNode(<<"t", "e", "s", "t", "3">>, FALSE, <<>>))),
            AtomNode(<<"b", "l", "a", "h">>, FALSE, <<>>))),
        <<>>)

\* C3: for any input the scanner comes to have emitted exactly as many items
\* as the input has parentheses outside quoted atoms, bare atom runs and quoted
\* atoms, plus one, the last of them being EndOfInput.
C3_TokenCount ==
  <>[](Produced = ExpectedTokens(input) /\ LastProduced = itemEOF)

\* C4: for a canonical well-formed input, what sexprUnparse sends for the tree
\* parse returned is at any time a prefix of the input, and is the input when
\* sexprUnparse has returned.
C4_RoundTrip ==
  Canonical(input) =>
    /\ IsPrefix(out, input)
    /\ (upc = "done" => out = input)

\* C5: for an input whose quotes are all closed, when the top-level parse call
\* has returned the parser has received EndOfInput.
C5_AllConsumed ==
  (QuotesClosed(input) /\ ppc = "returned") => EOFReceived

\* C6: when EndOfInput arrives with a list still open the parser does not panic.
C6_LenientOpenList ==
  EOFInsideList => ppc # "panic"

\* C7: the scanner has produced at most one item more than the parser has
\* received, and every completed send has been received.
C7_Rendezvous ==
  /\ Produced - tokens <= 1
  /\ Len(sent) = tokens
  /\ buf = <<>>

C7_Witness ==
  /\ lpc = "emit"
  /\ Produced = tokens + 1
  /\ tokens >= 2

\* C8: the scanner has ended only if the last item it sent is EndOfInput;
\* EndOfInput is sent at most once, nothing is sent after it, and the scanner
\* produces nothing after it.
C8_ExitAfterEOF ==
  /\ lpc \in {"nil", "closed"} => (sent # <<>> /\ Last(sent).typ = itemEOF)
  /\ closed => lpc = "closed"
  /\ \A k \in 1..Len(sent) : sent[k].typ = itemEOF => k = Len(sent)
  /\ Count(sent, {itemEOF}) > 0 => lpc \in {"nil", "closed"}

C8_Witness ==
  /\ closed
  /\ Len(sent) >= 3
  /\ Last(sent).typ = itemEOF

\* C9: once the parser has received EndOfInput it receives nothing more.
C9_NoReceiveAfterEOF ==
  [][EOFReceived => recvd' = recvd]_vars

\* C10: the tree parse returns for an input is the tree it returned for the
\* input from which it differs in one whitespace run outside the quoted atoms.
C10_WhitespaceInsensitive ==
  (run = 2 /\ ppc = "returned") => Tree(root) = saved[1]

C10_Witness ==
  /\ run = 2
  /\ ppc = "returned"
  /\ Len(heap) >= 2
  /\ Len(input) = MaxLen

\* the text form of the tree below pointer a: the bytes of an atom's value,
\* a list's contents in parentheses, one space between siblings
RECURSIVE Text(_)
Text(a) ==
  IF a = 0 THEN <<>>
  ELSE (IF heap[a].sty = sexprList
          THEN <<"(">> \o Text(heap[a].list) \o <<")">>
          ELSE heap[a].val)
       \o (IF heap[a].next # 0 THEN <<" ">> \o Text(heap[a].next) ELSE <<>>)

\* C11: what sexprUnparse has sent for the tree it was given is at any time a
\* prefix of the text form of the tree, and it has returned only with the whole
\* text sent (nothing for a null root).
C11_UnparseText ==
  upc # "idle" =>
    /\ IsPrefix(out, Text(root))
    /\ (upc = "done" => out = Text(root))

\* C12: the identifiers _sexprToDotFile gives to the structures of a tree
\* strictly increase in the order of the visit, so no two structures share one.
C12_DotIdentifiers ==
  dpc = "done" =>
    \A j, k \in 1..Len(dot) : j < k => dot[j].id < dot[k].id

\* C13: a parser that has received an Error item has stopped with an error
\* outcome: it has not panicked and waits for no further item.
C13_ErrorItemIsReported ==
  Count(recvd, {itemError}) > 0 => ppc = "error"

\* the types of the items of a sequence
Types(its) == [k \in 1..Len(its) |-> its[k].typ]

\* the List structures with a nil list pointer
EmptyLists == {a \in 1..Len(heap) : heap[a].sty = sexprList /\ heap[a].list = 0}

\* the left parentheses received that the next item received closes
ClosedAtOnce ==
  {k \in 1..(Len(recvd) - 1) : recvd[k].typ = itemLParen /\ recvd[k + 1].typ = itemRParen}

\* C14: parse returns for `()` (and for `( )`) one List with nil list and nil
\* next, having received LeftParen, RightParen, EndOfInput; and in any tree
\* returned the Lists with a nil list are as many as the left parentheses
\* closed by the very next item.
C14_EmptyList ==
  ppc = "returned" =>
    /\ Cardinality(EmptyLists) = Cardinality(ClosedAtOnce)
    /\ input \in {<<"(", ")">>, <<"(", " ", ")">>} =>
         /\ View(root) = ListNode(<<>>, <<>>)
         /\ Len(heap) = 1
         /\ Types(recvd) = <<itemLParen, itemRParen, itemEOF>>

C14_Witness ==
  /\ ppc = "returned"
  /\ input = <<"(", ")">>
  /\ root = 1

\* the scanner is sending the item of a quoted atom: the byte before pos is
\* the closing quote
SendingQuoted ==
  /\ lpc = "emit"
  /\ pend.typ = itemAtom
  /\ pos >= 2
  /\ input[pos] = "\""

\* the place of the quote that opens the quoted atom closed just before pos
OpeningQuote ==
  CHOOSE q \in 1..(pos - 1) :
    /\ input[q] = "\""
    /\ \A j \in (q + 1)..(pos - 1) : input[j] # "\""

\* C15: the text of the item the scanner sends for a closed quoted atom is
\* the run of bytes between its two quotes, without the quotes.
C15_QuotedText ==
  SendingQuoted =>
    SubSeq(input, start + 1, pos) = SubSeq(input, OpeningQuote + 1, pos - 1)

\* the items received that are the text of a quoted atom (a bare atom holds no quote)
QuotedItems ==
  {k \in 1..Len(recvd) : /\ recvd[k].typ = itemAtom
                         /\ recvd[k].val # <<>>
                         /\ recvd[k].val[1] = "\""}

AtomNodes == {a \in 1..Len(heap) : heap[a].sty = sexprAtom}

\* C16: in the tree parse returns there is one Atom for each atom item
\* received, with the text of an item received as its value, and the Atoms
\* marked as quoted are as many as the items of quoted atoms.
C16_QuotedFlag ==
  ppc = "returned" =>
    /\ Cardinality(AtomNodes) = Count(recvd, {itemAtom})
    /\ \A a \in AtomNodes : \E k \in 1..Len(recvd) : recvd[k].val = heap[a].val
    /\ Cardinality({a \in AtomNodes : heap[a].aty # atomBasic}) = Cardinality(QuotedItems)

\* the parse calls made so far: the top-level one, one by each Atom and one or
\* two by each List, whether its call is still active or has built its structure
Calls ==
  1 + Len(stack) + Cardinality({k \in 1..Len(stack) : stack[k].sty = sexprList /\ stack[k].at = "next"})
    + Len(heap) + Cardinality({a \in 1..Len(heap) : heap[a].sty = sexprList})

LastSiblings == {a \in 1..Len(heap) : heap[a].next = 0}

\* the atoms and closed lists received that the next item received does not follow
\* in their sequence
EndsOfSequence ==
  {k \in 1..(Len(recvd) - 1) : /\ recvd[k].typ \in {itemAtom, itemRParen}
                               /\ recvd[k + 1].typ \in {itemRParen, itemEOF}}

\* the fields of the structures that hold pointer a
Owners(a) ==
  {<<b, "list">> : b \in {c \in 1..Len(heap) : heap[c].list = a}}
  \cup {<<b, "next">> : b \in {c \in 1..Len(heap) : heap[c].next = a}}

\* C18: in the tree parse returns an Atom has a nil list and a List an empty
\* value; the structures with a nil next are the last elements of the
\* sequences of the input and the Lists with a nil list its empty lists; every
\* pointer leads to a structure built earlier (no cycle), the root is held by
\* no structure and every other structure by exactly one field.
C18_TreeShape ==
  ppc = "returned" =>
    /\ \A a \in 1..Len(heap) :
         /\ heap[a].sty = sexprAtom => heap[a].list = 0
         /\ heap[a].sty = sexprList => heap[a].val = <<>>
         /\ heap[a].list < a /\ heap[a].next < a
         /\ Cardinality(Owners(a)) = (IF a = root THEN 0 ELSE 1)
    /\ root = Len(heap)
    /\ Cardinality(LastSiblings) = Cardinality(EndsOfSequence)
    /\ Cardinality(EmptyLists) = Cardinality(ClosedAtOnce)

C18_Witness ==
  /\ ppc = "returned"
  /\ Len(heap) >= 3
  /\ \E a \in 1..Len(heap) : heap[a].sty = sexprList /\ heap[a].list # 0 /\ heap[a].next # 0

\* the parentheses of in outside its quoted atoms match
Balanced(in) ==
  /\ \A k \in 1..Len(in) : Depth(in, k) >= 0
  /\ Depth(in, Len(in)) = 0

\* C19: for an input with balanced parentheses and closed quotes the run ends
\* with parse returned, every item sent received, the last one EndOfInput, and
\* the channel closed.
C19_Terminates ==
  (Balanced(input) /\ QuotesClosed(input)) =>
    <>[](/\ ppc = "returned"
         /\ lpc = "closed"
         /\ closed
         /\ recvd = sent
         /\ sent # <<>>
         /\ Last(sent).typ = itemEOF)

C19_Witness ==
  /\ Balanced(input)
  /\ QuotesClosed(input)
  /\ ppc = "returned"
  /\ lpc = "closed"
  /\ Count(sent, {itemLParen}) >= 1
  /\ Count(sent, {itemAtom}) >= 1

\* C20: 0 <= start <= pos <= len(input); peek gives the next code point (or
\* eof) and leaves pos where it was; backup undoes the next before it; the
\* scanner is in lexLeftParen or lexRightParen only with start = pos and the
\* parenthesis at pos, and the text of a parenthesis item is that one byte.
C20_CursorInBounds ==
  /\ 0 <= start /\ start <= pos /\ pos <= Len(input)
  /\ peek(pos).pos = pos
  /\ peek(pos).rune = (IF pos >= Len(input) THEN eof ELSE DecodeRuneInString(input, pos).rune)
  /\ backup(next(pos)).pos = pos
  /\ lpc = "lexLeftParen" => (start = pos /\ pos < Len(input) /\ input[pos + 1] = "(")
  /\ lpc = "lexRightParen" => (start = pos /\ pos < Len(input) /\ input[pos + 1] = ")")
  /\ \A k \in 1..Len(sent) :
       /\ sent[k].typ = itemLParen => sent[k].val = <<"(">>
       /\ sent[k].typ = itemRParen => sent[k].val = <<")">>

C20_Witness ==
  /\ lpc = "lexRightParen"
  /\ start = pos
  /\ Count(sent, {itemLParen}) >= 1
  /\ Count(sent, {itemAtom}) >= 1

====
